---- MODULE Spec2Model ----
(***************************************************************************)
(* Model of src/src/providers/conference-data.ts: the ConferenceData       *)
(* provider (load / processData / processSession / getTimeline /           *)
(* filterSession / getSpeakers / getTracks / getMap).                      *)
(*                                                                         *)
(* JavaScript strings are sequences of one-character strings, so that      *)
(* toLowerCase, replace, split, trim, indexOf, sort and localeCompare are  *)
(* computed rather than assumed.  A field that may be absent (undefined)   *)
(* is a set with at most one element: None is undefined, Some(x) is x.     *)
(* JavaScript array indexes are 0-based; sequences here are 1-based.       *)
(***************************************************************************)
EXTENDS Integers, Sequences, FiniteSets, TLC

None == {}
Some(x) == {x}
IsSome(o) == o # {}
Get(o) == CHOOSE x \in o : TRUE

Range(s) == {s[i] : i \in 1..Len(s)}

(***************************************************************************)
(* Characters.  CodeOrder lists the characters the model uses in           *)
(* increasing UTF-16 code unit order (tab 9, space 32, comma 44, hyphen    *)
(* 45, period 46, A-Z 65-90, a-z 97-122).                                  *)
(***************************************************************************)
UpperCase == << "A", "B", "C", "D", "E", "F", "G", "H", "I", "J", "K", "L", "M",
                "N", "O", "P", "Q", "R", "S", "T", "U", "V", "W", "X", "Y", "Z" >>
LowerCase == << "a", "b", "c", "d", "e", "f", "g", "h", "i", "j", "k", "l", "m",
                "n", "o", "p", "q", "r", "s", "t", "u", "v", "w", "x", "y", "z" >>
CodeOrder == << "\t", " ", ",", "-", "." >> \o UpperCase \o LowerCase
WhiteSpace == { "\t", " " }

\* position of x in s (1-based), 0 when absent: Array.prototype.indexOf, plus one
Position(s, x) ==
    LET hits == {i \in 1..Len(s) : s[i] = x}
    IN  IF hits = {} THEN 0 ELSE CHOOSE i \in hits : \A j \in hits : i <= j

CodeOf == [c \in Range(CodeOrder) |-> Position(CodeOrder, c)]
CharCode(c) == CodeOf[c]

\* String.prototype.toLowerCase, character by character
LowerOf == [c \in Range(UpperCase) |-> LowerCase[Position(UpperCase, c)]]
lowerChar(c) == IF c \in DOMAIN LowerOf THEN LowerOf[c] ELSE c
toLowerCase(s) == [i \in 1..Len(s) |-> lowerChar(s[i])]

\* .replace(/,|\.|-/g, ' ')
replacePunctuation(s) == [i \in 1..Len(s) |-> IF s[i] \in { ",", ".", "-" } THEN " " ELSE s[i]]

\* String.prototype.split(' '): every single space separates, empty tokens are kept
RECURSIVE splitFrom(_, _, _, _)
splitFrom(s, i, cur, out) ==
    IF i > Len(s) THEN Append(out, cur)
    ELSE IF s[i] = " " THEN splitFrom(s, i + 1, << >>, Append(out, cur))
    ELSE splitFrom(s, i + 1, Append(cur, s[i]), out)
split(s) == splitFrom(s, 1, << >>, << >>)

\* String.prototype.trim
RECURSIVE trimLeft(_)
trimLeft(s) == IF Len(s) > 0 /\ Head(s) \in WhiteSpace THEN trimLeft(Tail(s)) ELSE s
RECURSIVE trimRight(_)
trimRight(s) ==
    IF Len(s) > 0 /\ s[Len(s)] \in WhiteSpace THEN trimRight(SubSeq(s, 1, Len(s) - 1)) ELSE s
trim(s) == trimRight(trimLeft(s))

\* String.prototype.indexOf(needle): 0-based index of the first occurrence, -1 when none
indexOfString(hay, needle) ==
    LET starts == {i \in 1..(Len(hay) - Len(needle) + 1) :
                      SubSeq(hay, i, i + Len(needle) - 1) = needle}
    IN  IF starts = {} THEN -1
        ELSE (CHOOSE i \in starts : \A j \in starts : i <= j) - 1

\* the query words of getTimeline
queryWordsOf(queryText) ==
    SelectSeq(split(replacePunctuation(toLowerCase(queryText))),
              LAMBDA w : Len(trim(w)) # 0)

\* default Array.prototype.sort order on strings: by UTF-16 code units
RECURSIVE codeUnitLess(_, _)
codeUnitLess(a, b) ==
    IF Len(b) = 0 THEN FALSE
    ELSE IF Len(a) = 0 THEN TRUE
    ELSE IF CharCode(Head(a)) # CharCode(Head(b)) THEN CharCode(Head(a)) < CharCode(Head(b))
    ELSE codeUnitLess(Tail(a), Tail(b))

\* String.prototype.localeCompare: letters compare without case first; on a tie
\* the lower-case form sorts first.  Negative, zero or positive.
primaryKey(c) == CharCode(lowerChar(c))
caseKey(c) == IF c \in DOMAIN LowerOf THEN 1 ELSE 0
RECURSIVE comparePrimary(_, _)
comparePrimary(a, b) ==
    IF Len(a) = 0 /\ Len(b) = 0 THEN 0
    ELSE IF Len(a) = 0 THEN -1
    ELSE IF Len(b) = 0 THEN 1
    ELSE IF primaryKey(Head(a)) # primaryKey(Head(b))
         THEN (IF primaryKey(Head(a)) < primaryKey(Head(b)) THEN -1 ELSE 1)
    ELSE comparePrimary(Tail(a), Tail(b))
RECURSIVE compareCase(_, _)
compareCase(a, b) ==
    IF Len(a) = 0 \/ Len(b) = 0 THEN 0
    ELSE IF caseKey(Head(a)) # caseKey(Head(b))
         THEN (IF caseKey(Head(a)) < caseKey(Head(b)) THEN -1 ELSE 1)
    ELSE compareCase(Tail(a), Tail(b))
localeCompare(a, b) ==
    IF comparePrimary(a, b) # 0 THEN comparePrimary(a, b) ELSE compareCase(a, b)

\* name.split(' ').pop()
lastName(name) == split(name)[Len(split(name))]

\* the comparator of getSpeakers, as "a sorts strictly before b"
speakerBefore(a, b) == localeCompare(lastName(a.name), lastName(b.name)) < 0

\* Array.prototype.sort, as a stable insertion sort: speakers by the comparator
\* of getSpeakers, track names by the default (code unit) order
RECURSIVE insertSpeaker(_, _)
insertSpeaker(sorted, x) ==
    IF Len(sorted) = 0 THEN << x >>
    ELSE IF speakerBefore(x, sorted[Len(sorted)])
         THEN Append(insertSpeaker(SubSeq(sorted, 1, Len(sorted) - 1), x), sorted[Len(sorted)])
    ELSE Append(sorted, x)
RECURSIVE sortSpeakersFrom(_, _, _)
sortSpeakersFrom(s, i, acc) ==
    IF i > Len(s) THEN acc ELSE sortSpeakersFrom(s, i + 1, insertSpeaker(acc, s[i]))
sortSpeakers(s) == sortSpeakersFrom(s, 1, << >>)

RECURSIVE insertTrack(_, _)
insertTrack(sorted, x) ==
    IF Len(sorted) = 0 THEN << x >>
    ELSE IF codeUnitLess(x, sorted[Len(sorted)])
         THEN Append(insertTrack(SubSeq(sorted, 1, Len(sorted) - 1), x), sorted[Len(sorted)])
    ELSE Append(sorted, x)
RECURSIVE sortTracksFrom(_, _, _)
sortTracksFrom(s, i, acc) ==
    IF i > Len(s) THEN acc ELSE sortTracksFrom(s, i + 1, insertTrack(acc, s[i]))
sortTracks(s) == sortTracksFrom(s, 1, << >>)

(***************************************************************************)
(* The Document.  Only the fields the provider reads or writes are kept:   *)
(* description, timeStart, timeEnd, location, profilePic, ... are never    *)
(* touched by the code.  A Speaker carries id, the identity of the object  *)
(* (its position in the raw document), so that a reference to it survives  *)
(* the in-place sort of data.speakers.  A reference to a Session is its    *)
(* path << day, group, session >> in data.schedule, which is never         *)
(* reordered.                                                              *)
(***************************************************************************)
RawSession(name, speakerNames, tracks) ==
    [name |-> name, speakerNames |-> speakerNames, tracks |-> tracks,
     speakers |-> None, hide |-> None]
RawGroup(time, sessions) == [time |-> time, sessions |-> sessions, hide |-> None]
RawDay(date, groups) == [date |-> date, groups |-> groups, shownSessions |-> None]
RawSpeaker(id, name) == [id |-> id, name |-> name, sessions |-> None]
RawDocument(schedule, speakers, map) ==
    [schedule |-> schedule, speakers |-> speakers, map |-> map, tracks |-> None]

sessionAt(data, p) == data.schedule[p[1]].groups[p[2]].sessions[p[3]]

\* data.speakers.find(s => s.name === speakerName): position of the first match, 0 if none
findSpeaker(speakers, speakerName) ==
    IF \E k \in 1..Len(speakers) : speakers[k].name = speakerName
    THEN CHOOSE k \in 1..Len(speakers) :
            /\ speakers[k].name = speakerName
            /\ \A j \in 1..(k - 1) : speakers[j].name # speakerName
    ELSE 0

\* linkSpeakers with "speaker.sessions = [session]" for the two lines that create
\* the list when it is missing and push to it
RECURSIVE linkSpeakersOverwriting(_, _, _)
linkSpeakersOverwriting(data, p, i) ==
    LET names == Get(sessionAt(data, p).speakerNames)
    IN  IF i > Len(names) THEN data
        ELSE LET k == findSpeaker(data.speakers, names[i])
             IN  IF k = 0 THEN linkSpeakersOverwriting(data, p, i + 1)
                 ELSE linkSpeakersOverwriting(
                        [data EXCEPT
                           !.schedule[p[1]].groups[p[2]].sessions[p[3]].speakers =
                               Some(Append(Get(@), data.speakers[k].id)),
                           !.speakers[k].sessions = Some(<< p >>)],
                        p, i + 1)

\* the speakerNames.forEach of processSession, from the i-th name on
RECURSIVE linkSpeakers(_, _, _)
linkSpeakers(data, p, i) ==
    LET names == Get(sessionAt(data, p).speakerNames)
    IN  IF i > Len(names) THEN data
        ELSE LET k == findSpeaker(data.speakers, names[i])
             IN  IF k = 0 THEN linkSpeakers(data, p, i + 1)
                 ELSE linkSpeakers(
                        [data EXCEPT
                           !.schedule[p[1]].groups[p[2]].sessions[p[3]].speakers =
                               Some(Append(Get(@), data.speakers[k].id)),
                           !.speakers[k].sessions =
                               Some(Append(IF IsSome(@) THEN Get(@) ELSE << >>, p))],
                        p, i + 1)

\* addTracks without the indexOf test
RECURSIVE addTracksUnchecked(_, _, _)
addTracksUnchecked(data, p, i) ==
    LET tracks == Get(sessionAt(data, p).tracks)
    IN  IF i > Len(tracks) THEN data
        ELSE addTracksUnchecked([data EXCEPT !.tracks = Some(Append(Get(@), tracks[i]))],
                                p, i + 1)

\* the tracks.forEach of processSession, from the i-th track on
RECURSIVE addTracks(_, _, _)
addTracks(data, p, i) ==
    LET tracks == Get(sessionAt(data, p).tracks)
    IN  IF i > Len(tracks) THEN data
        ELSE IF Position(Get(data.tracks), tracks[i]) = 0
             THEN addTracks([data EXCEPT !.tracks = Some(Append(Get(@), tracks[i]))], p, i + 1)
        ELSE addTracks(data, p, i + 1)

processSession(data, p) ==
    LET cleared == [data EXCEPT !.schedule[p[1]].groups[p[2]].sessions[p[3]].speakers =
                                    Some(<< >>)]
        linked == IF IsSome(sessionAt(cleared, p).speakerNames)
                  THEN linkSpeakers(cleared, p, 1) ELSE cleared
    IN  IF IsSome(sessionAt(linked, p).tracks) THEN addTracks(linked, p, 1) ELSE linked

\* the three nested forEach loops of processData, from session s of group g of day d on
RECURSIVE processFrom(_, _, _, _)
processFrom(data, d, g, s) ==
    IF d > Len(data.schedule) THEN data
    ELSE IF g > Len(data.schedule[d].groups) THEN processFrom(data, d + 1, 1, 1)
    ELSE IF s > Len(data.schedule[d].groups[g].sessions) THEN processFrom(data, d, g + 1, 1)
    ELSE processFrom(processSession(data, << d, g, s >>), d, g, s + 1)

processData(data) == processFrom([data EXCEPT !.tracks = Some(<< >>)], 1, 1, 1)

\* UserData.hasFavorite(sessionName): membership in the user's favorites
hasFavorite(favorites, sessionName) == sessionName \in favorites

(***************************************************************************)
(* filterSession.  favorites is the content of the Favorites Store at the  *)
(* time of the call.  session.tracks.forEach on an absent tracks throws a  *)
(* TypeError before session.hide is assigned.  In the loops below, a       *)
(* holds queryWords, excludeTracks and segment.                            *)
(***************************************************************************)
matchesQueryText(session, queryWords) ==
    IF Len(queryWords) # 0
    THEN \E i \in 1..Len(queryWords) :
            indexOfString(toLowerCase(session.name), queryWords[i]) > -1
    ELSE TRUE
\* matchesTracks asking that no track of the session be excluded
matchesTracksEvery(session, excludeTracks) ==
    \A i \in 1..Len(Get(session.tracks)) :
        Position(excludeTracks, Get(session.tracks)[i]) - 1 = -1
matchesTracks(session, excludeTracks) ==
    \E i \in 1..Len(Get(session.tracks)) :
        Position(excludeTracks, Get(session.tracks)[i]) - 1 = -1
matchesSegment(session, segment, favorites) ==
    IF segment = "favorites" THEN hasFavorite(favorites, session.name) ELSE TRUE

filterSession(session, queryWords, excludeTracks, segment, favorites) ==
    IF ~IsSome(session.tracks) THEN [session |-> session, error |-> "TypeError"]
    ELSE [session |-> [session EXCEPT !.hide =
                          Some(~(/\ matchesQueryText(session, queryWords)
                                 /\ matchesTracks(session, excludeTracks)
                                 /\ matchesSegment(session, segment, favorites)))],
          error |-> "none"]

\* group.sessions.forEach of getTimeline, from session s of group g of day d on
RECURSIVE filterSessionsFrom(_, _, _, _, _, _)
filterSessionsFrom(data, d, g, s, a, favorites) ==
    IF s > Len(data.schedule[d].groups[g].sessions) THEN [data |-> data, error |-> "none"]
    ELSE LET r == filterSession(sessionAt(data, << d, g, s >>), a.queryWords,
                                a.excludeTracks, a.segment, favorites)
             set == [data EXCEPT !.schedule[d].groups[g].sessions[s] = r.session]
             shown == [set EXCEPT !.schedule[d].groups[g].hide = Some(FALSE),
                                  !.schedule[d].shownSessions = Some(Get(@) + 1)]
         IN  IF r.error # "none" THEN [data |-> data, error |-> r.error]
             ELSE filterSessionsFrom(IF ~Get(r.session.hide) THEN shown ELSE set,
                                     d, g, s + 1, a, favorites)

\* day.groups.forEach of getTimeline, from group g of day d on
RECURSIVE filterGroupsFrom(_, _, _, _, _)
filterGroupsFrom(data, d, g, a, favorites) ==
    IF g > Len(data.schedule[d].groups) THEN [data |-> data, error |-> "none"]
    ELSE LET r == filterSessionsFrom([data EXCEPT !.schedule[d].groups[g].hide = Some(TRUE)],
                                     d, g, 1, a, favorites)
         IN  IF r.error # "none" THEN r
             ELSE filterGroupsFrom(r.data, d, g + 1, a, favorites)

(***************************************************************************)
(* The callback of getTimeline on the loaded data.  The result is the      *)
(* document as the callback leaves it, the error it threw ("none" when it  *)
(* returned) and the Day it returned, as the index of that Day.            *)
(* schedule[dayIndex] of an index outside the array is undefined, and the  *)
(* assignment day.shownSessions = 0 then throws a TypeError.               *)
(***************************************************************************)
validDayIndex(data, dayIndex) == dayIndex + 1 \in 1..Len(data.schedule)

\* filterDay with "day.shownSessions = day.shownSessions || 0" for the reset
filterDayCountingOn(data, a, favorites) ==
    LET d == a.dayIndex + 1
        words == [queryWords |-> queryWordsOf(a.queryText),
                  excludeTracks |-> a.excludeTracks, segment |-> a.segment]
        r == filterGroupsFrom(
               [data EXCEPT !.schedule[d].shownSessions = IF IsSome(@) THEN @ ELSE Some(0)],
               d, 1, words, favorites)
    IN  [data |-> r.data, error |-> r.error,
         day |-> IF r.error = "none" THEN Some(a.dayIndex) ELSE None]

\* filterDay resetting shownSessions of every Day of the schedule
filterDayResettingAll(data, a, favorites) ==
    LET d == a.dayIndex + 1
        words == [queryWords |-> queryWordsOf(a.queryText),
                  excludeTracks |-> a.excludeTracks, segment |-> a.segment]
        r == filterGroupsFrom(
               [data EXCEPT !.schedule = [e \in 1..Len(@) |-> [@[e] EXCEPT !.shownSessions = Some(0)]]],
               d, 1, words, favorites)
    IN  [data |-> r.data, error |-> r.error,
         day |-> IF r.error = "none" THEN Some(a.dayIndex) ELSE None]

\* the body of the callback once day is an object
filterDay(data, a, favorites) ==
    LET d == a.dayIndex + 1
        words == [queryWords |-> queryWordsOf(a.queryText),
                  excludeTracks |-> a.excludeTracks, segment |-> a.segment]
        r == filterGroupsFrom([data EXCEPT !.schedule[d].shownSessions = Some(0)],
                              d, 1, words, favorites)
    IN  [data |-> r.data, error |-> r.error,
         day |-> IF r.error = "none" THEN Some(a.dayIndex) ELSE None]

\* timelineCallback with "data.schedule[dayIndex] || data.schedule[0]" for the lookup
timelineCallbackFirstDay(data, a, favorites) ==
    IF ~validDayIndex(data, a.dayIndex)
    THEN filterDay(data, [a EXCEPT !.dayIndex = 0], favorites)
    ELSE filterDay(data, a, favorites)

timelineCallback(data, a, favorites) ==
    IF ~validDayIndex(data, a.dayIndex)
    THEN [data |-> data, error |-> "TypeError", day |-> None]
    ELSE filterDay(data, a, favorites)

\* the callbacks of getSpeakers and getTracks: Array.prototype.sort sorts in place
speakersCallback(data) == [data EXCEPT !.speakers = sortSpeakers(@)]
tracksCallback(data) == [data EXCEPT !.tracks = Some(sortTracks(Get(@)))]

(***************************************************************************)
(* The inputs: the static asset assets/data/data.json, the arguments of    *)
(* getTimeline and the contents of the Favorites Store.                    *)
(***************************************************************************)
IntroToX == << "I", "n", "t", "r", "o", " ", "t", "o", " ", "X" >>
DeepDiveY == << "D", "e", "e", "p", " ", "D", "i", "v", "e", " ", "Y" >>
XRay == << "X", "-", "r", "a", "y" >>
Lunch == << "L", "u", "n", "c", "h" >>
Design == << "d", "e", "s", "i", "g", "n" >>
Dev == << "d", "e", "v" >>
BobYoung == << "B", "o", "b", " ", "Y", "o", "u", "n", "g" >>
AliceAdams == << "A", "l", "i", "c", "e", " ", "A", "d", "a", "m", "s" >>
Zed == << "Z", "e", "d" >>
ThePins == << [name |-> "Monona Terrace", centre |-> TRUE], [name |-> "Ionic HQ", centre |-> FALSE] >>
\* the speakers, listed out of and in the order of their last names
TheSpeakers == << RawSpeaker(1, BobYoung), RawSpeaker(2, AliceAdams) >>
SortedSpeakers == << RawSpeaker(1, AliceAdams), RawSpeaker(2, BobYoung) >>

\* one Day, two Groups of one Session each
TwoGroups ==
    RawDocument(
      << RawDay("day 1",
           << RawGroup("9:00", << RawSession(IntroToX, Some(<< AliceAdams >>), Some(<< Design >>)) >>),
              RawGroup("10:00", << RawSession(DeepDiveY, Some(<< >>), Some(<< Dev >>)) >>) >>) >>,
      SortedSpeakers, ThePins)
\* two Days; a track on several sessions, a speaker name that matches no speaker,
\* a session without speakerNames and with no track, a group without sessions
TwoDays ==
    RawDocument(
      << RawDay("day 1",
           << RawGroup("9:00",
                << RawSession(XRay, Some(<< BobYoung, Zed, AliceAdams >>), Some(<< Dev, Design >>)),
                   RawSession(Lunch, None, Some(<< >>)) >>) >>),
         RawDay("day 2",
           << RawGroup("9:00", << RawSession(IntroToX, Some(<< AliceAdams >>), Some(<< Design >>)) >>),
              RawGroup("10:00", << >>) >>) >>,
      TheSpeakers, ThePins)
\* a session without the tracks field, between two sessions that have it
NoTracksField ==
    RawDocument(
      << RawDay("day 1",
           << RawGroup("9:00",
                << RawSession(DeepDiveY, Some(<< BobYoung >>), Some(<< Dev >>)),
                   RawSession(Lunch, None, None),
                   RawSession(IntroToX, None, Some(<< Design, Dev >>)) >>) >>) >>,
      SortedSpeakers, ThePins)
RawDocuments == { TwoGroups, TwoDays, NoTracksField }

DayIndexes == { 0, 1 }
OutsideIndexes == { -1, 2 }
QueryTexts == { << >>, << "I", "n", "t", "r", "o", ",", "\t", " ", ".", "Z", "z" >> }
ExcludeChoices == { << >>, << Design >> }
Segments == { "all", "favorites" }
FavoriteChoices == { {}, { IntroToX } }
\* the default values of the parameters of getTimeline
NoArgs == [dayIndex |-> 0, queryText |-> << >>, excludeTracks |-> << >>, segment |-> "all"]
\* the arguments of getTimeline: every combination for the indexes 0 and 1 (1 is
\* no index of a schedule of one Day); for -1 and 2, which are an index of no
\* schedule, the defaults, as the callback throws before it reads the others
TimelineArgs ==
    [dayIndex : DayIndexes, queryText : QueryTexts, excludeTracks : ExcludeChoices,
     segment : Segments]
      \cup {[NoArgs EXCEPT !.dayIndex = i] : i \in OutsideIndexes}

\* the number of requests http.get may be asked for in one run
MaxFetches == 2

(***************************************************************************)
(* The state.                                                              *)
(*   raw    the content of the static asset                                *)
(*   data   this.data: None, or Some(the cached Document); the field       *)
(*          object of a Document is the identity of the object, the number *)
(*          of the request whose response was parsed into it               *)
(*   calls  calls[f] is the call whose load() issued request f: the state  *)
(*          of the request and the state of the Promise load() returned.   *)
(*          Which operation waits on the Promise, and with which           *)
(*          arguments, is read by nothing but the then callback of that    *)
(*          operation, so both are drawn when the callback runs            *)
(*   last   the public call whose Promise was settled last: operation,     *)
(*          arguments, the Favorites Store it consulted, the error it was  *)
(*          rejected with ("none": fulfilled), the Day returned and the    *)
(*          identity of the Document it was given                          *)
(***************************************************************************)
VARIABLES raw, data, calls, last
vars == << raw, data, calls, last >>

Requests == 1..MaxFetches
NoCall == [fetch |-> "none", promise |-> "none"]
Issued == Cardinality({f \in Requests : calls[f].fetch # "none"})

\* the number of requests whose response has arrived
Fetched == Cardinality({f \in Requests : calls[f].fetch = "done"})

Init ==
    /\ raw \in RawDocuments
    /\ data = None
    /\ calls = [f \in Requests |-> NoCall]
    /\ last = [op |-> "none", args |-> NoArgs, favorites |-> {}, error |-> "none",
               day |-> None, object |-> 0]

\* the .then callback of operation op, run on the Document load() resolved with
callback(op, a, document, favorites) ==
    CASE op = "getTimeline" -> timelineCallback(document, a, favorites)
      [] op = "getSpeakers" -> [data |-> speakersCallback(document), error |-> "none", day |-> None]
      [] op = "getTracks" -> [data |-> tracksCallback(document), error |-> "none", day |-> None]
      [] OTHER -> [data |-> document, error |-> "none", day |-> None]

settled(op, a, favorites, r) ==
    [op |-> op, args |-> a, favorites |-> favorites, error |-> r.error, day |-> r.day,
     object |-> r.data.object]

\* the arguments a caller may give operation op, and the Favorites Store contents
\* a call with arguments a may find (hasFavorite is asked under 'favorites' alone)
ArgsOf(op) == IF op = "getTimeline" THEN TimelineArgs ELSE { NoArgs }
FavoritesOf(a) == IF a.segment = "favorites" THEN FavoriteChoices ELSE { {} }

\* load() as called by operation op: with this.data set, Promise.resolve(this.data)
\* and the callback of op; otherwise a new Promise and a new request
call(op) ==
    \/ /\ IsSome(data)
       /\ \E a \in ArgsOf(op) : \E favorites \in FavoritesOf(a) :
            LET r == callback(op, a, Get(data), favorites)
            IN  /\ data' = Some(r.data)
                /\ last' = settled(op, a, favorites, r)
       /\ UNCHANGED << raw, calls >>
    \/ /\ ~IsSome(data)
       /\ Issued < MaxFetches
       /\ calls' = [calls EXCEPT ![Issued + 1] = [fetch |-> "inflight", promise |-> "pending"]]
       /\ UNCHANGED << raw, data, last >>

load == call("load")
getTimeline == call("getTimeline")
getSpeakers == call("getSpeakers")
getTracks == call("getTracks")
getMap == call("getMap")

\* res.json(): the response parsed into a new object
parse(f) == [schedule |-> raw.schedule, speakers |-> raw.speakers, map |-> raw.map,
             tracks |-> raw.tracks, object |-> f]

\* the public operations, each of which starts with load()
Operations == { "load", "getTimeline", "getSpeakers", "getTracks", "getMap" }

\* the subscribe callback of load() for request f, and the then callback of the
\* operation that was waiting on the Promise
subscribeNext ==
    \E f \in Requests :
        /\ calls[f].fetch = "inflight"
        /\ \E op \in Operations : \E a \in ArgsOf(op) : \E favorites \in FavoritesOf(a) :
             LET r == callback(op, a, processData(parse(f)), favorites)
             IN  /\ data' = Some(r.data)
                 /\ last' = settled(op, a, favorites, r)
        /\ calls' = [calls EXCEPT ![f] = [fetch |-> "done", promise |-> "resolved"]]
        /\ UNCHANGED raw

\* request f fails: subscribe was given no error callback and the Promise was
\* built without reject, so nothing settles it
subscribeError ==
    \E f \in Requests :
        /\ calls[f].fetch = "inflight"
        /\ calls' = [calls EXCEPT ![f] = [fetch |-> "error", promise |-> "pending"]]
        /\ UNCHANGED << raw, data, last >>

Next == load \/ getTimeline \/ getSpeakers \/ getTracks \/ getMap \/ subscribeNext \/ subscribeError

Spec == Init /\ [][Next]_vars

(***************************************************************************)
(* What the properties below read off a step or a state.                   *)
(***************************************************************************)
\* the Document a fresh response yields for the object the cache holds
Normalized == processData(parse(Get(data).object))

\* a step in which a call finds this.data set and runs its callback at once
CachedCall == IsSome(data) /\ calls' = calls
\* a step in which the response of a request arrives
ResponseArrives == \E f \in Requests : calls[f].fetch = "inflight" /\ calls'[f].fetch = "done"

\* a Day, and a Document, without the hide and shownSessions annotations
StripDay(day) ==
    [day EXCEPT !.shownSessions = None,
                !.groups = [g \in 1..Len(@) |->
                    [@[g] EXCEPT !.hide = None,
                                 !.sessions = [k \in 1..Len(@) |-> [@[k] EXCEPT !.hide = None]]]]]
Strip(document) ==
    [document EXCEPT !.schedule = [d \in 1..Len(@) |-> StripDay(@[d])]]

\* the paths of the sessions of a Document, and of one of its Days
SessionPaths(document) ==
    {p \in (1..Len(document.schedule)) \X (1..3) \X (1..3) :
        /\ p[2] <= Len(document.schedule[p[1]].groups)
        /\ p[3] <= Len(document.schedule[p[1]].groups[p[2]].sessions)}
NamesOf(session) == IF IsSome(session.speakerNames) THEN Get(session.speakerNames) ELSE << >>
NoDuplicates(s) == \A i, j \in 1..Len(s) : s[i] = s[j] => i = j
\* no session.speakers and no speaker.sessions list holds a reference twice
NoDuplicateLinks(document) ==
    /\ \A p \in SessionPaths(document) : NoDuplicates(Get(sessionAt(document, p).speakers))
    /\ \A k \in 1..Len(document.speakers) :
          IsSome(document.speakers[k].sessions) => NoDuplicates(Get(document.speakers[k].sessions))

(***************************************************************************)
(* C1.  Of the load() calls made before the first response, at most one    *)
(* request is ever in flight or performed, and every caller is resolved    *)
(* with the one Document the cache holds.                                  *)
(***************************************************************************)
C1_SingleFetch ==
    /\ Cardinality({f \in Requests : calls[f].fetch \in { "inflight", "done" }}) <= 1
    /\ \A f \in Requests :
          calls[f].promise = "resolved" => IsSome(data) /\ Get(data).object = f

(***************************************************************************)
(* C2.  Once a load() has completed, the cache holds the very same         *)
(* Document for ever (every later load() resolves with it), exactly one    *)
(* fetch was performed and none is issued later, normalization does not    *)
(* run again and no list of cross-references holds a reference twice.      *)
(***************************************************************************)
C2_LoadIdempotent ==
    [][IsSome(data) =>
          /\ IsSome(data') /\ Get(data').object = Get(data).object
          /\ Fetched = 1 /\ Fetched' = 1 /\ Issued' = Issued
          /\ ~ResponseArrives
          /\ NoDuplicateLinks(Get(data'))]_vars

(***************************************************************************)
(* C3.  A load() whose request failed has its Promise rejected: the        *)
(* failure is surfaced to the caller.                                      *)
(***************************************************************************)
C3_FailureSurfaced ==
    \A f \in Requests : calls[f].fetch = "error" => calls[f].promise = "rejected"

(***************************************************************************)
(* C8.  Whatever public operations were called, the cached Document is     *)
(* structurally what normalization left: schedule, speakers, tracks and    *)
(* map have the content and the order of the freshly normalized Document;  *)
(* only hide and shownSessions differ.                                     *)
(***************************************************************************)
C8_StructureKept == IsSome(data) => Strip(Get(data)) = Strip(Normalized)

(***************************************************************************)
(* C4 as claimed.  A getTimeline whose dayIndex is no index into schedule  *)
(* is rejected with a RangeError and returns no Day.                       *)
(***************************************************************************)
C4_RangeError ==
    (last.op = "getTimeline" /\ ~validDayIndex(Get(data), last.args.dayIndex))
        => last.error = "RangeError" /\ last.day = None

(***************************************************************************)
(* C4 as amended.  A getTimeline whose dayIndex is no index into schedule  *)
(* is rejected, with the TypeError of assigning to a property of           *)
(* undefined, returns no Day and changes nothing in the Document: called   *)
(* on the cached Document it leaves it as it was, called before the first  *)
(* response it leaves the Document as normalization produced it.           *)
(***************************************************************************)
C4_InvalidDayRejected ==
    [][((CachedCall \/ ResponseArrives) /\ last'.op = "getTimeline"
           /\ ~validDayIndex(Get(data'), last'.args.dayIndex))
        => /\ last'.error = "TypeError"
           /\ last'.day = None
           /\ data' = IF CachedCall THEN data
                      ELSE Some(processData(parse(last'.object)))]_vars

\* an invalid dayIndex was rejected on a Document that carries annotations
C4_Witness ==
    /\ last.op = "getTimeline" /\ last.error = "TypeError"
    /\ ~validDayIndex(Get(data), last.args.dayIndex)
    /\ \E d \in 1..Len(Get(data).schedule) : Get(data).schedule[d].shownSessions = Some(1)

(***************************************************************************)
(* C5.  In the Day a getTimeline returned: every session has               *)
(* hide = ~(query /\ track /\ segment), where query holds iff there is no  *)
(* query word or the lower-cased name contains one, track iff some track   *)
(* of the session is not excluded, segment iff the segment is not          *)
(* favorites or the name is a favorite; every group is hidden iff all its  *)
(* sessions are; shownSessions counts the sessions not hidden.             *)
(***************************************************************************)
Contains(hay, needle) ==
    \E i \in 1..(Len(hay) + 1) : \E j \in (i - 1)..Len(hay) : SubSeq(hay, i, j) = needle
QueryHolds(session, words) ==
    words = << >> \/ \E w \in Range(words) : Contains(toLowerCase(session.name), w)
TrackHolds(session, excluded) ==
    \E t \in Range(Get(session.tracks)) : t \notin Range(excluded)
SegmentHolds(session, segment, favorites) ==
    segment # "favorites" \/ session.name \in favorites

C5_TimelineHides ==
    (last.op = "getTimeline" /\ last.error = "none") =>
        LET day == Get(data).schedule[Get(last.day) + 1]
            words == queryWordsOf(last.args.queryText)
            shown == {p \in SessionPaths(Get(data)) :
                         p[1] = Get(last.day) + 1 /\ sessionAt(Get(data), p).hide = Some(FALSE)}
        IN  /\ Get(last.day) = last.args.dayIndex
            /\ \A g \in 1..Len(day.groups) :
                  /\ \A k \in 1..Len(day.groups[g].sessions) :
                        LET session == day.groups[g].sessions[k]
                        IN  session.hide =
                              Some(~(/\ QueryHolds(session, words)
                                     /\ TrackHolds(session, last.args.excludeTracks)
                                     /\ SegmentHolds(session, last.args.segment, last.favorites)))
                  /\ day.groups[g].hide =
                        Some(\A k \in 1..Len(day.groups[g].sessions) :
                                day.groups[g].sessions[k].hide = Some(TRUE))
            /\ day.shownSessions = Some(Cardinality(shown))

\* a Day was returned in which a session without tracks is hidden next to a
\* session that is shown, under a query with words and an excluded track
C5_Witness ==
    /\ last.op = "getTimeline" /\ last.error = "none"
    /\ LET day == Get(data).schedule[Get(last.day) + 1]
       IN  \E g \in 1..Len(day.groups) : \E j, k \in 1..Len(day.groups[g].sessions) :
              /\ day.groups[g].sessions[j].tracks = Some(<< >>)
              /\ day.groups[g].sessions[j].hide = Some(TRUE)
              /\ day.groups[g].sessions[k].hide = Some(FALSE)
              /\ day.shownSessions = Some(1)
              /\ last.args.excludeTracks # << >>

(***************************************************************************)
(* The annotations of a Day: shownSessions, the hide of every group and    *)
(* the hide of every session.                                              *)
(***************************************************************************)
DayAnnotations(day) ==
    [shownSessions |-> day.shownSessions,
     groups |-> [g \in 1..Len(day.groups) |->
                    [hide |-> day.groups[g].hide,
                     sessions |-> [k \in 1..Len(day.groups[g].sessions) |->
                                      day.groups[g].sessions[k].hide]]]]
Annotations(document) ==
    [d \in 1..Len(document.schedule) |-> DayAnnotations(document.schedule[d])]
\* the Document a single call like the last one leaves of a freshly normalized Document
SingleCall == callback(last.op, last.args, Normalized, last.favorites).data

(***************************************************************************)
(* C6 as claimed.  After any sequence of getTimeline calls, the last of    *)
(* which returned a Day, the annotations of the Document are those a       *)
(* single call with the arguments of the last call produces on a freshly   *)
(* normalized Document: no annotation value an earlier call left survives. *)
(***************************************************************************)
C6_NoAnnotationSurvives ==
    (last.op = "getTimeline" /\ last.error = "none")
        => Annotations(Get(data)) = Annotations(SingleCall)

(***************************************************************************)
(* C6 as amended.  After any sequence of calls that ends with a            *)
(* getTimeline for a valid dayIndex, the annotations of the Day that call  *)
(* selected are those a single call with its arguments produces on a       *)
(* freshly normalized Document; the annotations earlier calls left on the  *)
(* other Days survive.                                                     *)
(***************************************************************************)
C6_SelectedDayRecomputed ==
    (last.op = "getTimeline" /\ validDayIndex(Get(data), last.args.dayIndex)) =>
        DayAnnotations(Get(data).schedule[last.args.dayIndex + 1])
            = DayAnnotations(SingleCall.schedule[last.args.dayIndex + 1])

\* the last call hid every session of its Day while another Day still shows the
\* count an earlier call left
C6_Witness ==
    /\ last.op = "getTimeline" /\ last.error = "none"
    /\ Get(data).schedule[last.args.dayIndex + 1].shownSessions = Some(0)
    /\ \E d \in 1..Len(Get(data).schedule) :
          d # last.args.dayIndex + 1 /\ Get(data).schedule[d].shownSessions = Some(1)

(***************************************************************************)
(* C7.  A getTimeline on the cached Document changes nothing but           *)
(* shownSessions of the selected Day and the hide flags of its groups and  *)
(* sessions: the other Days with their annotations, speakers, tracks, map  *)
(* and the Session-Speaker references stay as they were.                   *)
(***************************************************************************)
C7_TimelineFrame ==
    [][(CachedCall /\ last'.op = "getTimeline") =>
          LET old == Get(data)
              new == Get(data')
          IN  /\ Strip(new) = Strip(old)
              /\ \A d \in 1..Len(old.schedule) :
                    d # last'.args.dayIndex + 1 => new.schedule[d] = old.schedule[d]]_vars

\* a getTimeline returned the second Day of a Document whose speakers and tracks
\* were sorted and whose first Day was annotated before
C7_Witness ==
    /\ last.op = "getTimeline" /\ last.day = Some(1)
    /\ Get(data).schedule[1].shownSessions = Some(1)
    /\ Get(data).schedule[2].shownSessions = Some(0)
    /\ Get(data).speakers # Normalized.speakers
    /\ Get(data).tracks # Normalized.tracks

(***************************************************************************)
(* C9.  In the loaded Document, session.speakers is the sequence of the    *)
(* Speakers named by session.speakerNames, in that order, names that match *)
(* no Speaker skipped and absent speakerNames giving the empty list;       *)
(* speaker.sessions holds exactly the sessions that name the speaker; and  *)
(* a speaker is in session.speakers iff the session is in                  *)
(* speaker.sessions.  (Speaker names are unique in the raw documents.)     *)
(***************************************************************************)
SpeakerNamed(document, name) == CHOOSE sp \in Range(document.speakers) : sp.name = name
SessionsOf(speaker) == IF IsSome(speaker.sessions) THEN Range(Get(speaker.sessions)) ELSE {}

C9_CrossReferences ==
    IsSome(data) =>
        LET document == Get(data)
            known(name) == \E sp \in Range(document.speakers) : sp.name = name
        IN  /\ \A p \in SessionPaths(document) :
                  LET matched == SelectSeq(NamesOf(sessionAt(document, p)), known)
                  IN  sessionAt(document, p).speakers =
                        Some([i \in 1..Len(matched) |-> SpeakerNamed(document, matched[i]).id])
            /\ \A sp \in Range(document.speakers) :
                  /\ SessionsOf(sp) =
                        {p \in SessionPaths(document) :
                            sp.name \in Range(NamesOf(sessionAt(document, p)))}
                  /\ \A p \in SessionPaths(document) :
                        sp.id \in Range(Get(sessionAt(document, p).speakers)) <=> p \in SessionsOf(sp)

\* a loaded Document with a speaker of two sessions, a session naming an unknown
\* speaker and a session without speakerNames, after the speakers were sorted
C9_Witness ==
    /\ IsSome(data)
    /\ \E sp \in Range(Get(data).speakers) : Cardinality(SessionsOf(sp)) = 2
    /\ \E p, q \in SessionPaths(Get(data)) :
          /\ Len(Get(sessionAt(Get(data), p).speakers)) < Len(NamesOf(sessionAt(Get(data), p)))
          /\ sessionAt(Get(data), q).speakerNames = None
          /\ sessionAt(Get(data), q).speakers = Some(<< >>)
    /\ Get(data).speakers # Normalized.speakers

(***************************************************************************)
(* C10.  Normalization leaves in tracks every track name some session      *)
(* carries, once each and nothing else, in the order of first occurrence   *)
(* when days, groups, sessions and their tracks are read in document       *)
(* order; the loaded Document holds the same names, once each.             *)
(***************************************************************************)
RECURSIVE TrackOccurrences(_, _, _, _)
TrackOccurrences(document, d, g, k) ==
    IF d > Len(document.schedule) THEN << >>
    ELSE IF g > Len(document.schedule[d].groups) THEN TrackOccurrences(document, d + 1, 1, 1)
    ELSE IF k > Len(document.schedule[d].groups[g].sessions)
         THEN TrackOccurrences(document, d, g + 1, 1)
    ELSE (IF IsSome(document.schedule[d].groups[g].sessions[k].tracks)
          THEN Get(document.schedule[d].groups[g].sessions[k].tracks) ELSE << >>)
         \o TrackOccurrences(document, d, g, k + 1)

C10_TracksFirstSeen ==
    IsSome(data) =>
        LET occurrences == TrackOccurrences(raw, 1, 1, 1)
            tracks == Get(Normalized.tracks)
        IN  /\ Range(tracks) = Range(occurrences)
            /\ NoDuplicates(tracks)
            /\ \A i, j \in 1..Len(tracks) :
                  i < j => Position(occurrences, tracks[i]) < Position(occurrences, tracks[j])
            /\ Range(Get(Get(data).tracks)) = Range(occurrences)
            /\ NoDuplicates(Get(Get(data).tracks))

\* a Document was loaded whose tracks occur on several sessions and are first seen
\* in an order that is not the sorted one
C10_Witness ==
    /\ IsSome(data)
    /\ Get(data).tracks = Some(<< Dev, Design >>)
    /\ Len(TrackOccurrences(raw, 1, 1, 1)) = 3

====
